---- MODULE Spec2Model ----
(***************************************************************************)
(* Model of the SongGio crawling scripts.                                  *)
(*                                                                         *)
(* Every script is a single-threaded CLI run.  One run of one script is    *)
(* one behaviour: Init picks the script, its command line and the remote   *)
(* data, the actions are the steps of that script's main().                *)
(*                                                                         *)
(*   list_tthc        crawling_script/dichvucong.gov.vn/.../list_tthc.js   *)
(*   crawl_decisions  unnamed/part_001 (DecisionCrawler)                   *)
(*   emoh             crawling_script/emohbackup.moh.gov.vn/.../crawler.js *)
(*   fetch_details       unnamed/part_000                                  *)
(*   fetch_tthc_details  unnamed/part_002                                  *)
(*   decision_details    crawling_script/thutuc.dichvucong.gov.vn/...      *)
(*                       /decision_details.js (DecisionDetailCrawler)      *)
(*   scrape_mod          the www.mod.gov.vn scraper in the same file        *)
(*                       (scrapeAllPages, lines 618-977)                    *)
(*   vanban_console      crawling_script/vanban.chinhphu.vn                 *)
(*                       /browser_console.js (vanbanCrawler)                *)
(*   save_csv            DecisionCrawler.saveToCSV of unnamed/part_001      *)
(***************************************************************************)
EXTENDS Integers, Sequences, FiniteSets, TLC

\* ---------------------------------------------------------------- bounds
MaxRecords == 5
MaxKey == 2
MaxPageSize == 2
MaxLimit == 4
MaxAttachments == 1
\* at most this many injected failures (failed requests, write errors) per run
MaxFaults == 2
\* longest listing of the emoh run and longest input file of a detail run
MaxDocs == 3
\* longest input file of decision_details, and its largest batchSize option
MaxDecisions == 11
MaxBatchSize == 2
\* longest field value of a record written by saveToCSV
MaxValueLen == 2
\* largest AMOUNT a procedure service reports for one decision
MaxAmount == 3
\* calls of vanbanCrawler.crawlCurrentPage() typed by the user
MaxManualCrawls == 2

\* crawlAllDetails: `batchNumber % 10 === 0`
CheckpointEvery == 10

Keys == 1..MaxKey
PageSizes == 1..MaxPageSize
\* limit = 0 stands for "no --limit": null, 0 and NaN are all falsy in
\* `limit || totalRecords`, `limit && ...` and `limit ? ... : ...`
Limits == 0..MaxLimit
\* a destination path: the owning record's directory and the file in it
Paths == Keys \X (1..MaxAttachments)

ListScripts == {"list_tthc", "crawl_decisions", "emoh"}
DetailScripts == {"fetch_details", "fetch_tthc_details"}
BatchScripts == {"decision_details"}
ScrapeScripts == {"scrape_mod"}
BrowserScripts == {"vanban_console"}
CsvScripts == {"save_csv"}
ProcScripts == {"all_procedures"}

\* scrapeAllPages: `if (currentPageNum > 50)`
SafetyLimit == 50
\* scrapeAllPages: maxRetries of page.goto, maxNavRetries of the wait for the
\* next page
MaxRetries == 3
MaxNavRetries == 3

VARIABLES
  script,        \* which script this run executes
  pc,            \* position in main()
  exitCode,      \* -1 while running, else the process exit status
  faults,        \* failures injected so far
  source,        \* the remote listing, in the order the site serves it
  pageSize,      \* PAGE_SIZE / recordsPerPage / pageSize
  limit,         \* --limit (0 = none)
  attCount,      \* remote data: the attachments each record of this run has
  input,         \* the records of the input file (raw_result.json)
  inputExists,   \* whether the input file is there
  shouldDownload,\* --download
  batchSize,     \* crawlAllDetails' batchSize option
  testMode,      \* decision_details --test <id...>
  pageIndex,     \* pageIndex / page / p
  totalRecords,  \* count captured from the first page
  maxPages,      \* maxPages / totalPages
  collection,    \* allTTHC / allDecisions / allDocs
  fetchLog,      \* history: every page fetch issued, in order
  saved,         \* the result file: [written, data]
  files,         \* the attachment directory tree: path -> state of the file
  pending,       \* attachments of the current page / record still to download
  dlLog,         \* history: every download call, in order
  downloadedCount, failedCount, totalAttachments,   \* phase 2 counters
  out,           \* detailedResults / detailedDecisions
  idx,           \* the loop index i of the detail loop and of the download loop
  successCount, failCount,                          \* phase 1 counters
  requests,      \* history: network requests issued by a detail run
  inflight,      \* the batch being awaited: one slot per record of the batch
  checkpoint,    \* detailed_decisions_temp.json: [written, data]
  ckptLog,       \* history: every checkpoint written, [batch, data]
  autoCrawlEnabled,  \* vanbanCrawler.autoCrawlEnabled of the script instance
  autoCrawlMaxPages, \* vanbanCrawler.autoCrawlMaxPages (0 = null)
  storage,       \* localStorage[STORAGE_KEY]: [enabled, maxPages, docs]
  stopAt,        \* history: the page shown and the size of allDocuments when
                 \* the user's stopAutoCrawl() returned
  retries,       \* retries / navRetries of the scraper's current retry loop
  pauses         \* history: the sleep(5000) calls of that retry loop

cfgVars == <<script, source, pageSize, limit, attCount, input, inputExists,
             shouldDownload, batchSize, testMode>>
harvestVars == <<pageIndex, totalRecords, maxPages, collection, fetchLog>>
dlVars == <<files, pending, dlLog, downloadedCount, failedCount, totalAttachments>>
detailVars == <<out, idx, successCount, failCount, requests>>
batchVars == <<inflight, checkpoint, ckptLog>>
browserVars == <<autoCrawlEnabled, autoCrawlMaxPages, storage, stopAt>>
scrapeVars == <<retries, pauses>>
vars == <<pc, exitCode, faults, saved, cfgVars, harvestVars, dlVars, detailVars,
          batchVars, browserVars, scrapeVars>>

\* ------------------------------------------------------- pure functions

\* Math.ceil(a / b) for a >= 0, b > 0
CeilDiv(a, b) == (a + b - 1) \div b

Min(a, b) == IF a <= b THEN a ELSE b

Last(s) == s[Len(s)]

\* The records the remote returns for the 1-based page `p`
RemotePage(src, P, p) ==
  IF (p - 1) * P + 1 > Len(src) THEN << >>
  ELSE SubSeq(src, (p - 1) * P + 1, Min(p * P, Len(src)))

\* Keys of a sequence of records, each once, in order of first occurrence
RECURSIVE FirstKeys(_)
FirstKeys(s) ==
  IF s = << >> THEN << >>
  ELSE LET rest == FirstKeys(SubSeq(s, 1, Len(s) - 1))
           k    == Last(s).key
       IN  IF \E i \in 1..Len(rest) : rest[i] = k THEN rest
           ELSE Append(rest, k)

LastWithKey(s, k) ==
  s[CHOOSE i \in 1..Len(s) :
      /\ s[i].key = k
      /\ \A j \in (i + 1)..Len(s) : s[j].key # k]

\* mutant: one pass that removes only the first record that has a later
\* record with its key
DedupByKey_onePass(s) ==
  LET dup == { i \in 1..Len(s) : \E j \in (i + 1)..Len(s) : s[j].key = s[i].key }
  IN  IF dup = {} THEN s
      ELSE LET d == CHOOSE i \in dup : \A k \in dup : i <= k
           IN  SubSeq(s, 1, d - 1) \o SubSeq(s, d + 1, Len(s))

\* Array.from(new Map(all.map(item => [item.TTHC_MA, item])).values()):
\* a Map keeps a key at the position of its first insertion and the value of
\* its last one
DedupByKey(s) ==
  LET ks == FirstKeys(s)
  IN  [i \in 1..Len(ks) |-> LastWithKey(s, ks[i])]

\* limit ? uniqueTTHC.slice(0, limit) : uniqueTTHC
ApplyLimit(l, s) == IF l # 0 THEN SubSeq(s, 1, Min(l, Len(s))) ELSE s

\* mutant: the limit cuts the fetched records before they are deduplicated
FinalResult_truncateFirst(l, all) == DedupByKey(ApplyLimit(l, all))

\* finalResult: uniqueTTHC, cut to the limit when there is one
FinalResult(l, all) == ApplyLimit(l, DedupByKey(all))

\* list_tthc: maxRecords = limit || totalRecords; maxPages = ceil(maxRecords / PAGE_SIZE)
ListMaxPages(l, total, P) == CeilDiv(IF l # 0 THEN l ELSE total, P)

\* calculateTotalPages / Math.ceil(firstPage.nTotal / pageSize)
CalculateTotalPages(total, P) == CeilDiv(total, P)

\* mutant: the empty first page is not noticed
FirstPageNoData_never(page) == FALSE

\* !Array.isArray(firstPage) || firstPage.length === 0
FirstPageNoData(page) == Len(page) = 0

\* the `for` header: next iteration or leave the loop
LoopPc(next, max) == IF next <= max THEN "loop" ELSE "save"

\* mutant: a failed page ends the loop
OnPageError_break(page, max) == "save"

\* catch (err) { log } inside the page loop: the loop goes on
OnPageError(page, max) == LoopPc(page + 1, max)

LogEntry(ph, p, ok, recs) == [phase |-> ph, page |-> p, ok |-> ok, recs |-> recs]

\* whether a delay has elapsed between the fetch that `log` ends with and the
\* fetch that is issued now.  list_tthc sleeps at the top of the body of its
\* page loop; crawlAll delays after a fetch of its loop that did not throw;
\* the emoh crawler has no delay
DelayBefore(log) ==
  CASE script = "list_tthc" -> log # << >>
    [] script = "crawl_decisions" -> Len(log) >= 2 /\ Last(log).ok
    [] OTHER -> FALSE

\* a page fetch of a list harvester, with the delay that came before it
ListEntry(p, ok, recs) ==
  [phase |-> "list", page |-> p, ok |-> ok, recs |-> recs,
   delay |-> DelayBefore(fetchLog)]

\* ------------------------------------------------------------------ Init

NoFiles == [p \in Paths |-> "absent"]
\* the attachment tree is empty, or a previous run has filled it
FileStates == {NoFiles, [p \in Paths |-> "old"]}

\* a record as the scripts see it: its natural key and where it came from
Rec(k, i) == [key |-> k, pos |-> i]

\* the scripts only compare keys for equality, so a key is named by the order
\* of its first appearance: the first record has key 1, and a record has an
\* earlier record's key or the next unused one
FirstAppearance(ks) ==
  \A i \in DOMAIN ks :
    \/ ks[i] = 1
    \/ \E j \in 1..(i - 1) : ks[j] = ks[i] - 1

Sources(maxLen) ==
  UNION { { [i \in 1..n |-> Rec(ks[i], i)] :
            ks \in { f \in [1..n -> Keys] : FirstAppearance(f) } }
          : n \in 0..maxLen }

InitList ==
  /\ script \in ListScripts
  /\ source \in Sources(IF script = "emoh" THEN MaxDocs ELSE MaxRecords)
  /\ pageSize \in PageSizes
  /\ limit \in (IF script = "list_tthc" THEN Limits ELSE {0})
  /\ attCount \in (IF script = "emoh" THEN 0..MaxAttachments ELSE {0})
  /\ files \in (IF script = "emoh" THEN FileStates ELSE {NoFiles})
  /\ input = << >> /\ inputExists = FALSE /\ shouldDownload = FALSE
  /\ batchSize = 1 /\ testMode = FALSE

InitDetail ==
  /\ script \in DetailScripts
  /\ inputExists \in BOOLEAN
  /\ input \in (IF inputExists THEN Sources(MaxDocs) ELSE {<< >>})
  /\ limit \in 0..MaxDocs
  /\ shouldDownload \in BOOLEAN
  /\ attCount \in 0..MaxAttachments
  /\ files \in FileStates
  /\ source = << >> /\ pageSize = 1 /\ batchSize = 1 /\ testMode = FALSE

InitBatch ==
  /\ script \in BatchScripts
  /\ testMode \in BOOLEAN
  /\ inputExists \in (IF testMode THEN {FALSE} ELSE BOOLEAN)
  \* the records of raw_result.json, or in test mode the mock decisions made
  \* from the identifiers on the command line
  /\ input \in (IF inputExists \/ testMode
                THEN { [i \in 1..n |-> Rec(i, i)] : n \in 0..MaxDecisions }
                ELSE {<< >>})
  /\ batchSize \in 1..MaxBatchSize
  \* the attachment list of a decision is only copied into its record: none,
  \* or as many as a record can have
  /\ attCount \in {0, MaxAttachments}
  /\ limit = 0 /\ shouldDownload = FALSE /\ files = NoFiles
  /\ source = << >> /\ pageSize = 1

InitScrape ==
  /\ script \in ScrapeScripts
  /\ source \in Sources(MaxDocs)
  /\ pageSize \in PageSizes
  /\ limit = 0 /\ attCount = 0 /\ files = NoFiles
  /\ input = << >> /\ inputExists = FALSE /\ shouldDownload = FALSE
  /\ batchSize = 1 /\ testMode = FALSE

\* the console script is pasted on a page of the site and
\* vanbanCrawler.startAutoCrawl(limit) is called (limit 0: no maxPages)
InitBrowser ==
  /\ script \in BrowserScripts
  /\ source \in Sources(MaxDocs)
  /\ pageSize \in PageSizes
  /\ limit \in Limits
  /\ attCount = 0 /\ files = NoFiles
  /\ input = << >> /\ inputExists = FALSE /\ shouldDownload = FALSE
  /\ batchSize = 1 /\ testMode = FALSE

\* one call of fetchAllProcedures(decisionId, fetchFunction, procedureType)
InitProcedures ==
  /\ script \in ProcScripts
  /\ source = << >>
  /\ pageSize \in PageSizes
  /\ limit = 0 /\ attCount = 0 /\ files = NoFiles
  /\ input = << >> /\ inputExists = FALSE /\ shouldDownload = FALSE
  /\ batchSize = 1 /\ testMode = FALSE

\* saveToCSV: a text is the sequence of its characters
Comma == ","
Quote == "\""
Newline == "\n"
Chars == {"a", Comma, Quote, Newline}
Strings(n) == UNION { [1..k -> Chars] : k \in 0..n }

\* the values of a record's fields: strings and numbers, as JSON.parse gives them
Values ==
  { [type |-> "string", s |-> t, n |-> 0] : t \in Strings(MaxValueLen) }
    \cup { [type |-> "number", s |-> << >>, n |-> k] : k \in 0..1 }

\* Object.keys(this.allDecisions[0])
Headers == <<"ID", "NAME">>

\* allDecisions when saveToCSV is called: no record, one record, or a second
\* record after it
InitCsv ==
  /\ script \in CsvScripts
  /\ \E first \in [1..Len(Headers) -> Values] :
       input \in {<< >>, <<first>>}
                 \cup { <<first, [j \in 1..Len(Headers) |-> v]>> :
                        v \in { w \in Values : w.type = "number" \/ Len(w.s) = 1 } }
  /\ source = << >> /\ pageSize = 1 /\ limit = 0 /\ attCount = 0
  /\ files = NoFiles /\ inputExists = FALSE /\ shouldDownload = FALSE
  /\ batchSize = 1 /\ testMode = FALSE

NoFile == [written |-> FALSE, data |-> << >>]

\* localStorage without the crawler's key: loadFromStorage keeps the defaults
NoStorage == [enabled |-> FALSE, maxPages |-> 0, docs |-> << >>]

\* the user has not called stopAutoCrawl()
NoStop == [page |-> 0, docs |-> 0]

Init ==
  /\ \/ InitList \/ InitDetail \/ InitBatch \/ InitScrape \/ InitBrowser
     \/ InitCsv \/ InitProcedures
  /\ pc = "start"
  /\ exitCode = -1
  /\ faults = 0
  /\ pageIndex = 0
  /\ totalRecords = 0
  /\ maxPages = 0
  /\ collection = << >>
  /\ fetchLog = << >>
  /\ saved = NoFile
  /\ pending = << >>
  /\ dlLog = << >>
  /\ downloadedCount = 0 /\ failedCount = 0 /\ totalAttachments = 0
  /\ out = << >>
  /\ idx = 0
  /\ successCount = 0 /\ failCount = 0
  /\ requests = 0
  /\ inflight = << >>
  /\ checkpoint = NoFile
  /\ ckptLog = << >>
  /\ autoCrawlEnabled = FALSE
  /\ autoCrawlMaxPages = 0
  /\ storage = NoStorage
  /\ stopAt = NoStop
  /\ retries = 0
  /\ pauses = 0

\* a request may fail while the run's failure budget lasts
Outcomes == IF faults < MaxFaults THEN BOOLEAN ELSE {TRUE}
Charge(ok) == faults' = IF ok THEN faults ELSE faults + 1

\* ------------------------------------------------------------ list_tthc

\* main(), lines 113-142: the first page
ListFetchFirst ==
  /\ script = "list_tthc" /\ pc = "start"
  /\ \E ok \in Outcomes :
       LET page == RemotePage(source, pageSize, 1) IN
       /\ Charge(ok)
       /\ IF ~ok
          THEN \* fetchTTHC rejects: outer catch, process.exit(1)
               /\ fetchLog' = Append(fetchLog, ListEntry(1, FALSE, << >>))
               /\ pc' = "done" /\ exitCode' = 1
               /\ UNCHANGED <<totalRecords, maxPages, collection, pageIndex>>
          ELSE /\ fetchLog' = Append(fetchLog, ListEntry(1, TRUE, page))
               /\ IF FirstPageNoData(page)
                  THEN \* "No data returned from API": return
                       /\ pc' = "done" /\ exitCode' = 0
                       /\ UNCHANGED <<totalRecords, maxPages, collection, pageIndex>>
                  ELSE /\ totalRecords' = Len(source)
                       /\ collection' = page
                       /\ maxPages' = ListMaxPages(limit, Len(source), pageSize)
                       /\ pageIndex' = 2
                       /\ pc' = LoopPc(2, maxPages')
                       /\ UNCHANGED exitCode
  /\ UNCHANGED <<cfgVars, saved, dlVars, detailVars, batchVars,
                 browserVars, scrapeVars>>

\* main(), lines 145-171: one iteration of the page loop
ListFetchNext ==
  /\ script = "list_tthc" /\ pc = "loop"
  /\ \E ok \in Outcomes :
       LET page == RemotePage(source, pageSize, pageIndex) IN
       /\ Charge(ok)
       /\ IF ~ok
          THEN /\ fetchLog' = Append(fetchLog, ListEntry(pageIndex, FALSE, << >>))
               /\ pc' = OnPageError(pageIndex, maxPages)
               /\ pageIndex' = pageIndex + 1
               /\ UNCHANGED collection
          ELSE /\ fetchLog' = Append(fetchLog, ListEntry(pageIndex, TRUE, page))
               /\ IF Len(page) = 0
                  THEN \* "No data on page": break
                       /\ pc' = "save"
                       /\ UNCHANGED <<collection, pageIndex>>
                  ELSE /\ collection' = collection \o page
                       /\ IF limit # 0 /\ Len(collection') >= limit
                          THEN /\ pc' = "save" /\ UNCHANGED pageIndex
                          ELSE /\ pc' = LoopPc(pageIndex + 1, maxPages)
                               /\ pageIndex' = pageIndex + 1
  /\ UNCHANGED <<cfgVars, totalRecords, maxPages, saved, exitCode, dlVars,
                 detailVars, batchVars,
                 browserVars, scrapeVars>>

\* main(), lines 173-198: deduplicate, truncate, write the result file
ListSave ==
  /\ script = "list_tthc" /\ pc = "save"
  /\ saved' = [written |-> TRUE,
               data |-> FinalResult(limit, collection)]
  /\ pc' = "done" /\ exitCode' = 0
  /\ UNCHANGED <<cfgVars, faults, harvestVars, dlVars, detailVars, batchVars,
                 browserVars, scrapeVars>>

\* ------------------------------------------------------ crawl_decisions

\* DecisionCrawler.crawlAll, lines 71-89: the first page
DecFetchFirst ==
  /\ script = "crawl_decisions" /\ pc = "start"
  /\ \E ok \in Outcomes :
       LET page == RemotePage(source, pageSize, 1) IN
       /\ Charge(ok)
       /\ IF ~ok
          THEN \* fetchPage rethrows, crawlAll rejects: main's catch, process.exit(1)
               /\ fetchLog' = Append(fetchLog, ListEntry(1, FALSE, << >>))
               /\ pc' = "done" /\ exitCode' = 1
               /\ UNCHANGED <<totalRecords, maxPages, collection, pageIndex>>
          ELSE /\ fetchLog' = Append(fetchLog, ListEntry(1, TRUE, page))
               /\ IF FirstPageNoData(page)
                  THEN \* "No data found.": return [], main goes on to saveToFile
                       /\ pc' = "save"
                       /\ UNCHANGED <<totalRecords, maxPages, collection, pageIndex>>
                  ELSE /\ collection' = page
                       /\ totalRecords' = Len(source)
                       /\ maxPages' = CalculateTotalPages(Len(source), pageSize)
                       /\ pageIndex' = 2
                       /\ pc' = LoopPc(2, maxPages')
               /\ UNCHANGED exitCode
  /\ UNCHANGED <<cfgVars, saved, dlVars, detailVars, batchVars,
                 browserVars, scrapeVars>>

\* DecisionCrawler.crawlAll, lines 92-108: one iteration of the page loop
DecFetchNext ==
  /\ script = "crawl_decisions" /\ pc = "loop"
  /\ \E ok \in Outcomes :
       LET page == RemotePage(source, pageSize, pageIndex) IN
       /\ Charge(ok)
       /\ fetchLog' = Append(fetchLog,
                             ListEntry(pageIndex, ok, IF ok THEN page ELSE << >>))
       /\ collection' = IF ok /\ Len(page) > 0 THEN collection \o page ELSE collection
       /\ pc' = IF ok THEN LoopPc(pageIndex + 1, maxPages)
                ELSE OnPageError(pageIndex, maxPages)
       /\ pageIndex' = pageIndex + 1
  /\ UNCHANGED <<cfgVars, totalRecords, maxPages, saved, exitCode, dlVars,
                 detailVars, batchVars,
                 browserVars, scrapeVars>>

\* main, lines 209-217: saveToFile writes allDecisions as collected
DecSave ==
  /\ script = "crawl_decisions" /\ pc = "save"
  /\ saved' = [written |-> TRUE, data |-> collection]
  /\ pc' = "done" /\ exitCode' = 0
  /\ UNCHANGED <<cfgVars, faults, harvestVars, dlVars, detailVars, batchVars,
                 browserVars, scrapeVars>>

\* ------------------------------------------------------------------ emoh

\* the destination paths of the attachments of `docs`, in download order
RECURSIVE AttachmentPaths(_, _)
AttachmentPaths(docs, att) ==
  IF docs = << >> THEN << >>
  ELSE [j \in 1..att |-> <<Head(docs).key, j>>]
         \o AttachmentPaths(Tail(docs), att)

\* fetchPage(page, size): a failure is caught and yields {docs: [], nTotal: 0}
EmohPage(ok, p) == IF ok THEN RemotePage(source, pageSize, p + 1) ELSE << >>
EmohTotal(ok) == IF ok THEN Len(source) ELSE 0

\* main, lines 55-60: the first page (index 0)
EmohFetchFirst ==
  /\ script = "emoh" /\ pc = "start"
  /\ \E ok \in Outcomes :
       /\ Charge(ok)
       /\ fetchLog' = Append(fetchLog, ListEntry(0, ok, EmohPage(ok, 0)))
       /\ collection' = EmohPage(ok, 0)
       /\ totalRecords' = EmohTotal(ok)
       /\ maxPages' = CalculateTotalPages(EmohTotal(ok), pageSize)
       /\ pageIndex' = 1
       /\ pc' = IF 1 < maxPages' THEN "loop" ELSE "save"
  /\ UNCHANGED <<cfgVars, exitCode, saved, dlVars, detailVars, batchVars,
                 browserVars, scrapeVars>>

\* main, lines 62-65: for (p = 1; p < totalPages; p++)
EmohFetchNext ==
  /\ script = "emoh" /\ pc = "loop"
  /\ \E ok \in Outcomes :
       /\ Charge(ok)
       /\ fetchLog' = Append(fetchLog,
                             ListEntry(pageIndex, ok, EmohPage(ok, pageIndex)))
       /\ collection' = collection \o EmohPage(ok, pageIndex)
       /\ pageIndex' = pageIndex + 1
       /\ pc' = IF pageIndex + 1 < maxPages THEN "loop" ELSE "save"
  /\ UNCHANGED <<cfgVars, exitCode, totalRecords, maxPages, saved, dlVars,
                 detailVars, batchVars,
                 browserVars, scrapeVars>>

\* after a page's attachments: the next page of the download loop, or the end
EmohAfter(p, rest) ==
  IF rest # << >> THEN "download"
  ELSE IF p < maxPages THEN "dlpage" ELSE "done"

\* main, lines 67-72: write document_raw_result.json
EmohSave ==
  /\ script = "emoh" /\ pc = "save"
  /\ saved' = [written |-> TRUE, data |-> collection]
  /\ pageIndex' = 0
  /\ pc' = EmohAfter(0, << >>)
  /\ exitCode' = IF pc' = "done" THEN 0 ELSE exitCode
  /\ UNCHANGED <<cfgVars, faults, totalRecords, maxPages, collection, fetchLog,
                 dlVars, detailVars, batchVars,
                 browserVars, scrapeVars>>

\* main, lines 73-76: the download loop fetches page p again
EmohDownloadPage ==
  /\ script = "emoh" /\ pc = "dlpage"
  /\ \E ok \in Outcomes :
       /\ Charge(ok)
       /\ fetchLog' = Append(fetchLog,
                             LogEntry("download", pageIndex, ok, EmohPage(ok, pageIndex)))
       /\ pending' = AttachmentPaths(EmohPage(ok, pageIndex), attCount)
       /\ pageIndex' = pageIndex + 1
       /\ pc' = EmohAfter(pageIndex + 1, pending')
       /\ exitCode' = IF pc' = "done" THEN 0 ELSE exitCode
  /\ UNCHANGED <<cfgVars, totalRecords, maxPages, collection, saved, files, dlLog,
                 downloadedCount, failedCount, totalAttachments, detailVars,
                 batchVars,
                 browserVars, scrapeVars>>

\* one download call: the file at the destination before and after it, whether
\* a network request was issued, how the call ended and whether a counter
\* recorded it
DlEntry(path, before, request, outcome, left, counted) ==
  [path |-> path, before |-> before, request |-> request, outcome |-> outcome,
   left |-> left, counted |-> counted]

\* downloadAttachment(att, documentId), lines 28-51, called at line 78
EmohDownloadAttachment ==
  /\ script = "emoh" /\ pc = "download"
  /\ LET path == Head(pending) IN
     \/ \* existsSync(filePath): "Already downloaded", return
        /\ files[path] # "absent"
        /\ dlLog' = Append(dlLog, DlEntry(path, files[path], FALSE, "cached", files[path], FALSE))
        /\ UNCHANGED <<files, faults>>
     \/ \* fetch, arrayBuffer, writeFileSync all succeed
        /\ files[path] = "absent"
        /\ files' = [files EXCEPT ![path] = "complete"]
        /\ dlLog' = Append(dlLog, DlEntry(path, "absent", TRUE, "saved", "complete", FALSE))
        /\ UNCHANGED faults
     \/ \* fetch rejects or !res.ok: thrown before anything is written, caught
        /\ files[path] = "absent" /\ faults < MaxFaults
        /\ faults' = faults + 1
        /\ dlLog' = Append(dlLog, DlEntry(path, "absent", TRUE, "failed", "absent", FALSE))
        /\ UNCHANGED files
     \/ \* writeFileSync throws: caught and logged, whatever it wrote stays
        /\ files[path] = "absent" /\ faults < MaxFaults
        /\ faults' = faults + 1
        /\ \E left \in {"absent", "partial"} :
             /\ files' = [files EXCEPT ![path] = left]
             /\ dlLog' = Append(dlLog, DlEntry(path, "absent", TRUE, "failed", left, FALSE))
  /\ pending' = Tail(pending)
  /\ pc' = EmohAfter(pageIndex, pending')
  /\ exitCode' = IF pc' = "done" THEN 0 ELSE exitCode
  /\ UNCHANGED <<cfgVars, harvestVars, saved, downloadedCount, failedCount,
                 totalAttachments, detailVars, batchVars,
                 browserVars, scrapeVars>>

\* ------------------------------------- fetch_details, fetch_tthc_details

\* limit ? rawResults.slice(0, limit) : rawResults
ToProcess == ApplyLimit(limit, input)

\* { ...a, ...b }
Merge(a, b) ==
  [f \in (DOMAIN a) \cup (DOMAIN b) |-> IF f \in DOMAIN b THEN b[f] ELSE a[f]]

\* the fields of an input record: its identifier, and what the listing told
\* about it (NAME of a procedure; CODE and ISSUED_DATE of a document as
\* parseCurrentPage wrote them, `key` standing for its (PAGE_ID, DOC_ID);
\* CODE of a decision)
InputRecord(doc) ==
  CASE script = "fetch_tthc_details" -> [TTHC_MA |-> doc.key, NAME |-> doc.pos]
    [] script = "fetch_details" ->
         [PAGE_ID |-> doc.key, DOC_ID |-> doc.key, CODE |-> "list",
          ISSUED_DATE |-> "list"]
    [] OTHER -> [ID |-> doc.key, CODE |-> doc.pos]

\* the fields the detail fetch of a record produces: the object parseDetailHTML
\* returns, or the fields the catch block puts in its place
DetailFields(doc, fetched) ==
  CASE script = "fetch_tthc_details" ->
         IF fetched = "ok"
         THEN [TTHC_MA |-> doc.key, HAS_EXPORT |-> (attCount >= 1)]
         ELSE [HAS_EXPORT |-> FALSE, ERROR |-> TRUE]
    [] script = "fetch_details" ->
         IF fetched = "ok"
         THEN [PAGE_ID |-> doc.key, DOC_ID |-> doc.key, CODE |-> "detail",
               ATTACHMENTS |-> attCount]
         ELSE [PAGE_ID |-> doc.key, DOC_ID |-> doc.key, ERROR |-> TRUE]
    [] OTHER ->
         IF fetched = "threw" THEN [ERROR |-> TRUE]
         ELSE [ATTACHMENTS |-> IF fetched = "ok" THEN attCount ELSE 0]

\* the object pushed to the results: fetch_tthc_details and decision_details
\* spread the input record and then the fetched fields; fetch_details pushes
\* detailData (or the placeholder) as it is
Enrich(doc, fetched) ==
  IF script = "fetch_details" THEN DetailFields(doc, fetched)
  ELSE Merge(InputRecord(doc), DetailFields(doc, fetched))

\* the record pushed to detailedResults.  `fetched` remembers how the detail
\* requests of the record went: "ok", "threw" (the error reached the record's
\* catch block) or "swallowed" (decision_details only, see FetchDecisionDetails)
DetailRec(doc, fetched) ==
  [key |-> doc.key, pos |-> doc.pos, ERROR |-> (fetched = "threw"),
   natt |-> IF fetched = "ok" THEN attCount ELSE 0, fetched |-> fetched,
   rec |-> Enrich(doc, fetched)]

\* the destination paths of one detailed record's downloads:
\* fetch_details takes every entry of ATTACHMENTS, fetch_tthc_details the one
\* Word export of a record with HAS_EXPORT
RecordPaths(rec) ==
  IF script = "fetch_tthc_details"
  THEN IF rec.natt >= 1 THEN << <<rec.key, 1>> >> ELSE << >>
  ELSE [j \in 1..rec.natt |-> <<rec.key, j>>]

\* mutant: a missing input file is read as an empty one
AfterRead_ignore(exists, n) == IF n > 0 THEN "detail" ELSE "save"

\* readFileSync throws / existsSync is false: process.exit(1); otherwise the
\* detail loop, which an empty list skips
AfterRead(exists, n) ==
  IF ~exists THEN "done" ELSE IF n > 0 THEN "detail" ELSE "save"

\* main: read the input file, apply --limit
ReadInput ==
  /\ script \in DetailScripts /\ pc = "start"
  /\ pc' = AfterRead(inputExists, Len(ToProcess))
  /\ exitCode' = IF ~inputExists THEN 1 ELSE exitCode
  /\ UNCHANGED <<faults, saved, cfgVars, harvestVars, dlVars, detailVars, batchVars,
                 browserVars, scrapeVars>>

\* main, phase 1: one iteration of the detail loop
FetchDetail ==
  /\ script \in DetailScripts /\ pc = "detail"
  /\ \E ok \in Outcomes :
       /\ Charge(ok)
       /\ out' = Append(out, DetailRec(ToProcess[idx + 1], IF ok THEN "ok" ELSE "threw"))
       /\ successCount' = IF ok THEN successCount + 1 ELSE successCount
       /\ failCount' = IF ok THEN failCount ELSE failCount + 1
  /\ requests' = requests + 1
  /\ idx' = idx + 1
  /\ pc' = IF idx + 1 < Len(ToProcess) THEN "detail" ELSE "save"
  /\ UNCHANGED <<exitCode, saved, cfgVars, harvestVars, dlVars, batchVars,
                 browserVars, scrapeVars>>

\* mutant: phase 2 runs without --download
Phase2Enabled_always ==
  script = "fetch_tthc_details" => \E i \in 1..Len(out) : out[i].natt >= 1

\* phase 2 runs with --download (fetch_tthc_details: and some record has an export)
Phase2Enabled ==
  /\ shouldDownload
  /\ script = "fetch_tthc_details" => \E i \in 1..Len(out) : out[i].natt >= 1

\* mutant: the loop moves on to the next record with attachments left over
AfterDownload_skip(i, rest) == IF i < Len(out) THEN "dlrecord" ELSE "done"

\* the download loop's header: the next record, or the end of main
AfterDownload(i, rest) ==
  IF rest # << >> THEN "download"
  ELSE IF i < Len(out) THEN "dlrecord" ELSE "done"

\* main: write the detailed result file, then enter phase 2 if enabled
SaveDetailed ==
  /\ script \in DetailScripts /\ pc = "save"
  /\ saved' = [written |-> TRUE, data |-> out]
  /\ idx' = 0
  /\ pc' = IF Phase2Enabled THEN AfterDownload(0, << >>) ELSE "done"
  /\ exitCode' = IF pc' = "done" THEN 0 ELSE exitCode
  /\ UNCHANGED <<faults, cfgVars, harvestVars, dlVars, out, successCount, failCount,
                 requests, batchVars,
                 browserVars, scrapeVars>>

\* main, phase 2: one record of the download loop
DownloadRecord ==
  /\ script \in DetailScripts /\ pc = "dlrecord"
  /\ pending' = RecordPaths(out[idx + 1])
  /\ totalAttachments' = totalAttachments + Len(pending')
  /\ idx' = idx + 1
  /\ pc' = AfterDownload(idx + 1, pending')
  /\ exitCode' = IF pc' = "done" THEN 0 ELSE exitCode
  /\ UNCHANGED <<faults, saved, cfgVars, harvestVars, files, dlLog, downloadedCount,
                 failedCount, out, successCount, failCount, requests, batchVars,
                 browserVars, scrapeVars>>

\* downloadFile(url, destPath) and the try/catch around its call.
\* createWriteStream(destPath) comes first: an existing file is truncated and a
\* request is issued whether or not the file was there.
DownloadFile ==
  /\ script \in DetailScripts /\ pc = "download"
  /\ LET path == Head(pending)
         before == files[path]
         next == AfterDownload(idx, Tail(pending))
     IN
     \/ \* status 200, piped, 'finish': resolve
        /\ files' = [files EXCEPT ![path] = "complete"]
        /\ dlLog' = Append(dlLog, DlEntry(path, before, TRUE, "saved", "complete", TRUE))
        /\ downloadedCount' = downloadedCount + 1
        /\ pending' = Tail(pending)
        /\ pc' = next
        /\ exitCode' = IF next = "done" THEN 0 ELSE exitCode
        /\ UNCHANGED <<faults, failedCount>>
     \/ \* other status, or the request's 'error': unlink(destPath), reject
        /\ faults < MaxFaults /\ faults' = faults + 1
        /\ files' = [files EXCEPT ![path] = "absent"]
        /\ dlLog' = Append(dlLog, DlEntry(path, before, TRUE, "failed", "absent", TRUE))
        /\ failedCount' = failedCount + 1
        /\ pending' = Tail(pending)
        /\ pc' = next
        /\ exitCode' = IF next = "done" THEN 0 ELSE exitCode
        /\ UNCHANGED downloadedCount
     \/ \* the write stream's 'error' in fetch_details: close, unlink, reject
        /\ script = "fetch_details"
        /\ faults < MaxFaults /\ faults' = faults + 1
        /\ files' = [files EXCEPT ![path] = "absent"]
        /\ dlLog' = Append(dlLog, DlEntry(path, before, TRUE, "failed", "absent", TRUE))
        /\ failedCount' = failedCount + 1
        /\ pending' = Tail(pending)
        /\ pc' = next
        /\ exitCode' = IF next = "done" THEN 0 ELSE exitCode
        /\ UNCHANGED downloadedCount
     \/ \* the write stream's 'error' in fetch_tthc_details: downloadFile puts no
        \* listener on it, the event is thrown as an uncaught exception and the
        \* process dies with whatever the stream had written
        /\ script = "fetch_tthc_details"
        /\ faults < MaxFaults /\ faults' = faults + 1
        /\ \E left \in {"absent", "partial"} :
             /\ files' = [files EXCEPT ![path] = left]
             /\ dlLog' = Append(dlLog, DlEntry(path, before, TRUE, "failed", left, FALSE))
        /\ pc' = "done" /\ exitCode' = 1
        /\ UNCHANGED <<pending, downloadedCount, failedCount>>
  /\ requests' = requests + 1
  /\ UNCHANGED <<saved, cfgVars, harvestVars, totalAttachments, out, idx,
                 successCount, failCount, batchVars,
                 browserVars, scrapeVars>>

\* ------------------------------------------------------ decision_details

\* main, lines 549-585: test mode needs at least one identifier, normal mode
\* needs raw_result.json; otherwise process.exit(1)
CanStart == IF testMode THEN input # << >> ELSE inputExists

ReadDecisions ==
  /\ script \in BatchScripts /\ pc = "start"
  /\ IF ~CanStart
     THEN /\ pc' = "done" /\ exitCode' = 1
     ELSE /\ pc' = "load" /\ UNCHANGED exitCode
  /\ UNCHANGED <<faults, saved, cfgVars, harvestVars, dlVars, detailVars, batchVars,
                 browserVars, scrapeVars>>

\* crawlAllDetails, lines 389-396: loadAgencies and loadFields.  Without the
\* cached tables they fetch them, and that fetch has no catch of its own
LoadReference ==
  /\ script \in BatchScripts /\ pc = "load"
  /\ \E cached \in BOOLEAN : \E ok \in (IF cached THEN {TRUE} ELSE Outcomes) :
       /\ Charge(ok)
       /\ requests' = IF cached THEN requests ELSE requests + 1
       /\ IF ok
          THEN /\ pc' = IF Len(input) > 0 THEN "batch" ELSE "final"
               /\ UNCHANGED exitCode
          ELSE /\ pc' = "done" /\ exitCode' = 1
  /\ UNCHANGED <<saved, cfgVars, harvestVars, dlVars, out, idx, successCount,
                 failCount, batchVars,
                 browserVars, scrapeVars>>

\* crawlAllDetails: batch = decisionsToProcess.slice(i, i + batchSize) and the
\* batch.map(...) that starts one fetchDecisionDetails per record
StartBatch ==
  /\ script \in BatchScripts /\ pc = "batch"
  /\ inflight' = [j \in 1..Min(batchSize, Len(input) - idx) |-> "pending"]
  /\ pc' = "await"
  /\ UNCHANGED <<exitCode, faults, saved, cfgVars, harvestVars, dlVars, detailVars,
                 checkpoint, ckptLog,
                 browserVars, scrapeVars>>

\* fetchDecisionDetails(decision) settles.  Its five sub-fetches catch their
\* own request errors and return [] ("swallowed"); only an error raised after
\* them (fields is not an array) reaches its catch block ("threw")
DetailOutcomes ==
  IF faults < MaxFaults THEN {"ok", "swallowed", "threw"} ELSE {"ok"}

FetchDecisionDetails ==
  /\ script \in BatchScripts /\ pc = "await"
  /\ \E j \in 1..Len(inflight) : \E o \in DetailOutcomes :
       /\ inflight[j] = "pending"
       /\ inflight' = [inflight EXCEPT ![j] = o]
       /\ Charge(o = "ok")
  /\ requests' = requests + 1
  /\ UNCHANGED <<pc, exitCode, saved, cfgVars, harvestVars, dlVars, out, idx,
                 successCount, failCount, checkpoint, ckptLog,
                 browserVars, scrapeVars>>

\* mutant: no checkpoint after the last batch
ShouldCheckpoint_every10(batchNumber, i, n) == batchNumber % CheckpointEvery = 0

\* batchNumber % 10 === 0 || i + batchSize >= decisionsToProcess.length
ShouldCheckpoint(batchNumber, i, n) ==
  batchNumber % CheckpointEvery = 0 \/ i + batchSize >= n

\* mutant: a join that returns as soon as one record has failed
BatchSettled_failFast(fl) ==
  \/ \A j \in 1..Len(fl) : fl[j] # "pending"
  \/ \E j \in 1..Len(fl) : fl[j] = "threw"

\* await Promise.all(batch.map(...)): fetchDecisionDetails catches every
\* error and resolves, so the join resolves when every record has resolved
BatchSettled(fl) == \A j \in 1..Len(fl) : fl[j] # "pending"

\* mutant: the results of a batch come out last record first
BatchResults_reversed(base, fl) ==
  [j \in 1..Len(fl) |->
     DetailRec(input[base + Len(fl) + 1 - j], fl[Len(fl) + 1 - j])]

\* batchResults: Promise.all resolves to the results in the order of the
\* batch, whichever request completed first
BatchResults(base, fl) ==
  [j \in 1..Len(fl) |-> DetailRec(input[base + j], fl[j])]

\* crawlAllDetails, lines 407-424: Promise.all resolves, the results are
\* pushed, saveIntermediateResults writes the temp file when due
JoinBatch ==
  /\ script \in BatchScripts /\ pc = "await"
  /\ BatchSettled(inflight)
  /\ LET batchResults == BatchResults(idx, inflight)
         batchNumber == (idx \div batchSize) + 1
     IN  /\ out' = out \o batchResults
         /\ IF ShouldCheckpoint(batchNumber, idx, Len(input))
            THEN /\ checkpoint' = [written |-> TRUE, data |-> out']
                 /\ ckptLog' = Append(ckptLog, [batch |-> batchNumber, data |-> out'])
            ELSE UNCHANGED <<checkpoint, ckptLog>>
  /\ inflight' = << >>
  /\ idx' = idx + batchSize
  /\ pc' = IF idx + batchSize < Len(input) THEN "batch" ELSE "final"
  /\ UNCHANGED <<exitCode, faults, saved, cfgVars, harvestVars, dlVars,
                 successCount, failCount, requests, browserVars, scrapeVars>>

\* mutant: the temp file is removed whether or not the final file was written
TempAfterSave_always(ok, temp) == NoFile

\* saveResults, lines 465-469: the unlink of the temp file comes after
\* writeFileSync(outputPath) and is not reached when that throws
TempAfterSave(ok, temp) == IF ok THEN NoFile ELSE temp

\* what a writeFileSync that throws can leave of `data` at its path: nothing,
\* or an incomplete file
FailedWrite(data) ==
  {NoFile} \cup
    (IF data = << >> THEN {}
     ELSE {[written |-> FALSE, data |-> SubSeq(data, 1, Len(data) - 1)]})

\* saveResults(outputPath): write the final file, then unlink the temp file.
\* A throw of writeFileSync reaches main's catch: process.exit(1)
SaveResults ==
  /\ script \in BatchScripts /\ pc = "final" /\ ~testMode
  /\ \E ok \in Outcomes :
       /\ Charge(ok)
       /\ saved' \in (IF ok THEN {[written |-> TRUE, data |-> out]}
                      ELSE FailedWrite(out))
       /\ checkpoint' = TempAfterSave(ok, checkpoint)
       /\ exitCode' = IF ok THEN 0 ELSE 1
  /\ pc' = "done"
  /\ UNCHANGED <<cfgVars, harvestVars, dlVars, detailVars, inflight, ckptLog,
                 browserVars, scrapeVars>>

\* main, lines 592-596: test mode prints detailedDecisions to the console
PrintTestResults ==
  /\ script \in BatchScripts /\ pc = "final" /\ testMode
  /\ pc' = "done" /\ exitCode' = 0
  /\ UNCHANGED <<faults, saved, cfgVars, harvestVars, dlVars, detailVars, batchVars,
                 browserVars, scrapeVars>>

\* ------------------------------------------------------ fetchAllProcedures

\* what the procedure service returns for page `p` while it holds `amount`
\* procedures of the decision: every record carries AMOUNT
ProceduresPage(amount, P, p) ==
  [j \in 1..(IF amount > (p - 1) * P THEN Min(P, amount - (p - 1) * P) ELSE 0) |->
     [key |-> 1, pos |-> (p - 1) * P + j, AMOUNT |-> amount]]

\* if (pageIndex >= totalPages) break, with totalPages computed from the
\* AMOUNT of the page just read
AfterProcedures(p, totalPages) == IF p >= totalPages THEN "done" ELSE "loop"

\* fetchAllProcedures, lines 294-313: one iteration of while (true).  The
\* fetch functions catch a failed request and return []
FetchProceduresPage ==
  /\ script \in ProcScripts /\ pc \in {"start", "loop"}
  /\ \E ok \in Outcomes : \E amount \in 0..MaxAmount :
       LET p == IF pc = "start" THEN 1 ELSE pageIndex
           procedures == IF ok THEN ProceduresPage(amount, pageSize, p) ELSE << >>
       IN  /\ Charge(ok)
           /\ fetchLog' = Append(fetchLog, LogEntry("procedures", p, ok, procedures))
           /\ IF Len(procedures) = 0
              THEN /\ pc' = "done" /\ pageIndex' = p
                   /\ UNCHANGED <<collection, totalRecords, maxPages>>
              ELSE /\ collection' = collection \o procedures
                   /\ totalRecords' = procedures[1].AMOUNT
                   /\ maxPages' = CeilDiv(totalRecords', pageSize)
                   /\ pc' = AfterProcedures(p, maxPages')
                   /\ pageIndex' = IF pc' = "loop" THEN p + 1 ELSE p
  /\ UNCHANGED <<exitCode, cfgVars, saved, dlVars, detailVars, batchVars,
                 browserVars, scrapeVars>>

\* ------------------------------------------------------------ scrape_mod

\* getTotalPages(page): the largest page number in the pagination, 1 without one
GetTotalPages(n, P) == IF CeilDiv(n, P) > 1 THEN CeilDiv(n, P) ELSE 1

\* what getTotalPages reads from the pager: the pages of the listing, or, for
\* a listing of one row, a pager that shows more page numbers than the safety
\* limit allows (the pages after the first have an empty table)
PagerPages ==
  {GetTotalPages(Len(source), pageSize)}
    \cup (IF Len(source) = 1 THEN {SafetyLimit + 2} ELSE {})

\* mutant: a failed attempt is always followed by another one
AfterFailedAttempt_retry(n, max) == "retry"

\* if (retries >= maxRetries) throw / if (navRetries >= maxNavRetries) break
AfterFailedAttempt(n, max) == IF n >= max THEN "stop" ELSE "retry"

\* scrapeAllPages, lines 828-857: one attempt of page.goto; when the site has
\* loaded, wait for the table and read the number of pages.  A failed attempt
\* is retried after sleep(5000) until maxRetries attempts have failed.  A
\* throw goes through the outer catch to `scrapeAllPages().catch(console.error)`:
\* the process ends with status 0
ScrapeOpen ==
  /\ script \in ScrapeScripts /\ pc = "start"
  /\ \E loaded \in BOOLEAN : \E ok \in (IF loaded THEN Outcomes ELSE {TRUE}) :
       /\ Charge(ok)
       /\ IF loaded
          THEN /\ IF ok
                  THEN /\ pageIndex' = 1
                       /\ maxPages' \in PagerPages
                       /\ pc' = "scrape"
                       /\ UNCHANGED exitCode
                  ELSE /\ pc' = "done" /\ exitCode' = 0
                       /\ UNCHANGED <<pageIndex, maxPages>>
               /\ UNCHANGED scrapeVars
          ELSE /\ retries' = retries + 1
               /\ IF AfterFailedAttempt(retries', MaxRetries) = "stop"
                  THEN pc' = "done" /\ exitCode' = 0 /\ UNCHANGED pauses
                  ELSE pauses' = pauses + 1 /\ UNCHANGED <<pc, exitCode>>
               /\ UNCHANGED <<pageIndex, maxPages>>
  /\ UNCHANGED <<cfgVars, saved, totalRecords, collection, fetchLog, dlVars,
                 detailVars, batchVars,
                 browserVars>>

\* after the try/catch of one page: getCurrentPage against totalPages
AfterScrape(current, total) == IF current >= total THEN "final" ELSE "navigate"

\* scrapeAllPages, lines 860-905: scrape the current page and save the
\* progress; an error is passed over when earlier pages gave rows and thrown
\* again when there are none.  `let navRetries = 0` opens the retry loop of
\* the navigation that follows
ScrapePage ==
  /\ script \in ScrapeScripts /\ pc = "scrape"
  /\ LET rows == RemotePage(source, pageSize, pageIndex) IN
     \E ok \in (IF rows = << >> THEN {FALSE} ELSE Outcomes) :
       /\ faults' = IF ok \/ rows = << >> THEN faults ELSE faults + 1
       /\ fetchLog' = Append(fetchLog,
                             LogEntry("scrape", pageIndex, ok, IF ok THEN rows ELSE << >>))
       /\ collection' = IF ok THEN collection \o rows ELSE collection
       /\ saved' = [written |-> TRUE, data |-> collection']
       /\ IF ~ok /\ collection = << >>
          THEN pc' = "done" /\ exitCode' = 0
          ELSE pc' = AfterScrape(pageIndex, maxPages) /\ UNCHANGED exitCode
  /\ retries' = 0 /\ pauses' = 0
  /\ UNCHANGED <<cfgVars, pageIndex, totalRecords, maxPages, dlVars, detailVars,
                 batchVars,
                 browserVars>>

\* mutant: no safety limit
AfterNavigation_noLimit(next) == "scrape"

\* currentPageNum++; if (currentPageNum > 50) break
AfterNavigation(next) == IF next > SafetyLimit THEN "final" ELSE "scrape"

\* lines 936-949: "Failed to load next page, saving progress and stopping"
OnNavigationFailure(next) == "final"

\* scrapeAllPages, lines 907-957: the click on the next page link and one
\* attempt of the wait for its table; a failed wait is retried after
\* sleep(5000) until maxNavRetries waits have failed
ScrapeNavigate ==
  /\ script \in ScrapeScripts /\ pc = "navigate"
  /\ \E ok \in BOOLEAN :
       IF ok
       THEN /\ pageIndex' = pageIndex + 1
            /\ pc' = AfterNavigation(pageIndex + 1)
            /\ UNCHANGED <<saved, scrapeVars>>
       ELSE /\ retries' = retries + 1
            /\ IF AfterFailedAttempt(retries', MaxNavRetries) = "stop"
               THEN /\ saved' = [written |-> TRUE, data |-> collection]
                    /\ pc' = OnNavigationFailure(pageIndex + 1)
                    /\ UNCHANGED pauses
               ELSE /\ pauses' = pauses + 1
                    /\ UNCHANGED <<pc, saved>>
            /\ UNCHANGED pageIndex
  /\ UNCHANGED <<cfgVars, exitCode, faults, totalRecords, maxPages, collection,
                 fetchLog, dlVars, detailVars, batchVars,
                 browserVars>>

\* lines 960-966: the final saveProgress; the promise resolves, status 0
ScrapeFinish ==
  /\ script \in ScrapeScripts /\ pc = "final"
  /\ saved' = [written |-> TRUE, data |-> collection]
  /\ pc' = "done" /\ exitCode' = 0
  /\ UNCHANGED <<cfgVars, faults, harvestVars, dlVars, detailVars, batchVars,
                 browserVars, scrapeVars>>

\* -------------------------------------------------------- vanban_console

\* the pages of the site's listing (its pager shows a link to each)
SitePages == GetTotalPages(Len(source), pageSize)

\* parseCurrentPage: the rows of the page whose (PAGE_ID, DOC_ID) is not yet
\* in allDocuments
NewDocuments(all, page) ==
  SelectSeq(RemotePage(source, pageSize, page),
            LAMBDA r : ~\E i \in 1..Len(all) : all[i].key = r.key)

\* checkAndGoToNextPage: `autoCrawlMaxPages && currentPage >= autoCrawlMaxPages`
ReachedMaxPages(max, currentPage) == max # 0 /\ currentPage >= max

\* checkAndGoToNextPage: document.querySelector(`a[href*="Page$${currentPage + 1}"]`)
HasNextPageLink(currentPage) == currentPage + 1 <= SitePages

\* crawlCurrentPage() followed by checkAndGoToNextPage() on page `currentPage`
\* with maxPages `max`: either the click of the next-page link is scheduled or
\* stopAutoCrawl() runs
CrawlAndCheck(currentPage, max, all) ==
  LET docs == NewDocuments(all, currentPage)
      goOn == ~ReachedMaxPages(max, currentPage) /\ HasNextPageLink(currentPage)
  IN  /\ collection' = all \o docs
      /\ fetchLog' = Append(fetchLog, LogEntry("crawl", currentPage, TRUE, docs))
      /\ autoCrawlEnabled' = goOn
      /\ autoCrawlMaxPages' = IF goOn THEN max ELSE 0
      /\ storage' = [enabled |-> goOn, maxPages |-> autoCrawlMaxPages',
                     docs |-> collection']
      /\ pc' = IF goOn THEN "click" ELSE "done"
      /\ exitCode' = IF goOn THEN exitCode ELSE 0

\* startAutoCrawl(maxPages), called on whatever page the browser shows
StartAutoCrawl ==
  /\ script \in BrowserScripts /\ pc = "start"
  /\ \E currentPage \in 1..SitePages :
       /\ pageIndex' = currentPage
       /\ CrawlAndCheck(currentPage, limit, collection)
  /\ UNCHANGED <<cfgVars, faults, saved, totalRecords, maxPages, dlVars,
                 detailVars, batchVars, stopAt, scrapeVars>>

\* the user types vanbanCrawler.crawlCurrentPage() on a page of the listing:
\* parseCurrentPage, push, saveToStorage
CrawlCurrentPage ==
  /\ script \in BrowserScripts /\ pc = "start"
  /\ Len(fetchLog) < MaxManualCrawls
  /\ \E currentPage \in 1..SitePages :
       LET docs == NewDocuments(collection, currentPage) IN
       /\ pageIndex' = currentPage
       /\ collection' = collection \o docs
       /\ fetchLog' = Append(fetchLog, LogEntry("manual", currentPage, TRUE, docs))
       /\ storage' = [enabled |-> autoCrawlEnabled, maxPages |-> autoCrawlMaxPages,
                      docs |-> collection']
  /\ UNCHANGED <<pc, exitCode, cfgVars, faults, saved, totalRecords, maxPages,
                 dlVars, detailVars, batchVars, autoCrawlEnabled,
                 autoCrawlMaxPages, stopAt, scrapeVars>>

\* the user types vanbanCrawler.stopAutoCrawl() while a timer of the
\* auto-crawl is pending
StopAutoCrawl ==
  /\ script \in BrowserScripts /\ pc \in {"click", "load"}
  /\ stopAt = NoStop
  /\ autoCrawlEnabled' = FALSE
  /\ autoCrawlMaxPages' = 0
  /\ storage' = [enabled |-> FALSE, maxPages |-> 0, docs |-> collection]
  /\ stopAt' = [page |-> pageIndex, docs |-> Len(collection)]
  /\ UNCHANGED <<pc, exitCode, cfgVars, faults, saved, harvestVars, dlVars,
                 detailVars, batchVars, scrapeVars>>

\* the timer of checkAndGoToNextPage fires: nextPageLink.click(); the page
\* loads and the script's init() reads the crawler's state back with
\* loadFromStorage()
NextPageLoad ==
  /\ script \in BrowserScripts /\ pc = "click"
  /\ pageIndex' = pageIndex + 1
  /\ collection' = storage.docs
  /\ autoCrawlEnabled' = storage.enabled
  /\ autoCrawlMaxPages' = storage.maxPages
  /\ pc' = IF storage.enabled THEN "load" ELSE "done"
  /\ exitCode' = IF storage.enabled THEN exitCode ELSE 0
  /\ UNCHANGED <<cfgVars, faults, saved, totalRecords, maxPages, fetchLog, dlVars,
                 detailVars, batchVars, storage, stopAt, scrapeVars>>

\* init(), lines 36-42: the timer set while auto-crawl was on fires and runs
\* crawlCurrentPage() and checkAndGoToNextPage(); the latter returns at once
\* when autoCrawlEnabled is off
AutoCrawlPage ==
  /\ script \in BrowserScripts /\ pc = "load"
  /\ IF autoCrawlEnabled
     THEN CrawlAndCheck(pageIndex, autoCrawlMaxPages, collection)
     ELSE LET docs == NewDocuments(collection, pageIndex) IN
          /\ collection' = collection \o docs
          /\ fetchLog' = Append(fetchLog, LogEntry("crawl", pageIndex, TRUE, docs))
          /\ storage' = [enabled |-> FALSE, maxPages |-> autoCrawlMaxPages,
                         docs |-> collection']
          /\ pc' = "done" /\ exitCode' = 0
          /\ UNCHANGED <<autoCrawlEnabled, autoCrawlMaxPages>>
  /\ UNCHANGED <<cfgVars, faults, saved, pageIndex, totalRecords, maxPages, dlVars,
                 detailVars, batchVars, stopAt, scrapeVars>>

\* --------------------------------------------------------------- save_csv

\* value.toString()
ValueToString(v) ==
  IF v.type = "string" THEN v.s ELSE IF v.n = 0 THEN <<"0">> ELSE <<"1">>

\* `decision[header] || ''`: '' stands in for every falsy value
OrEmpty(v) ==
  IF (v.type = "string" /\ v.s = << >>) \/ (v.type = "number" /\ v.n = 0)
  THEN << >> ELSE ValueToString(v)

\* .replace(/"/g, '""')
RECURSIVE DoubleQuotes(_)
DoubleQuotes(t) ==
  IF t = << >> THEN << >>
  ELSE (IF Head(t) = Quote THEN <<Quote, Quote>> ELSE <<Head(t)>>)
         \o DoubleQuotes(Tail(t))

Includes(t, c) == \E i \in 1..Len(t) : t[i] = c

\* escaped.includes(',') ? `"${escaped}"` : escaped
CsvCell(v) ==
  LET escaped == DoubleQuotes(OrEmpty(v))
  IN  IF Includes(escaped, Comma) THEN <<Quote>> \o escaped \o <<Quote>>
      ELSE escaped

\* cells.join(',')
RECURSIVE Join(_)
Join(cells) ==
  IF cells = << >> THEN << >>
  ELSE IF Len(cells) = 1 THEN Head(cells)
  ELSE Head(cells) \o <<Comma>> \o Join(Tail(cells))

\* one character per header: the names hold no comma, quote or line break
HeaderLine == Join([j \in 1..Len(Headers) |-> <<"a">>])

RECURSIVE CsvRows(_)
CsvRows(decisions) ==
  IF decisions = << >> THEN << >>
  ELSE Join([j \in 1..Len(Headers) |-> CsvCell(Head(decisions)[j])])
         \o <<Newline>> \o CsvRows(Tail(decisions))

\* csvContent of saveToCSV, lines 157-170
CsvContent(decisions) == HeaderLine \o <<Newline>> \o CsvRows(decisions)

\* saveToCSV(outputPath): nothing is written for an empty allDecisions
SaveToCSV ==
  /\ script \in CsvScripts /\ pc = "start"
  /\ saved' = IF input = << >> THEN saved
              ELSE [written |-> TRUE, data |-> CsvContent(input)]
  /\ pc' = "done" /\ exitCode' = 0
  /\ UNCHANGED <<cfgVars, faults, harvestVars, dlVars, detailVars, batchVars,
                 browserVars, scrapeVars>>

Next ==
  \/ ListFetchFirst
  \/ ListFetchNext
  \/ ListSave
  \/ DecFetchFirst
  \/ DecFetchNext
  \/ DecSave
  \/ EmohFetchFirst
  \/ EmohFetchNext
  \/ EmohSave
  \/ EmohDownloadPage
  \/ EmohDownloadAttachment
  \/ ReadInput
  \/ FetchDetail
  \/ SaveDetailed
  \/ DownloadRecord
  \/ DownloadFile
  \/ ReadDecisions
  \/ LoadReference
  \/ StartBatch
  \/ FetchDecisionDetails
  \/ JoinBatch
  \/ SaveResults
  \/ PrintTestResults
  \/ ScrapeOpen
  \/ ScrapePage
  \/ ScrapeNavigate
  \/ ScrapeFinish
  \/ StartAutoCrawl
  \/ NextPageLoad
  \/ AutoCrawlPage
  \/ CrawlCurrentPage
  \/ StopAutoCrawl
  \/ SaveToCSV
  \/ FetchProceduresPage

Spec == Init /\ [][Next]_vars

\* scrapeAllPages alone.  Every step of it is the continuation of an await
\* that settles (the waits have timeouts, the sleeps are finite), so a step
\* that can be taken is taken
ScrapeInit == Init /\ script \in ScrapeScripts

ScrapeNext ==
  \/ ScrapeOpen
  \/ ScrapePage
  \/ ScrapeNavigate
  \/ ScrapeFinish

ScrapeLive == ScrapeInit /\ [][ScrapeNext]_vars /\ WF_vars(ScrapeNext)

\* ================================================================ claims

ListFetches == SelectSeq(fetchLog, LAMBDA e : e.phase = "list")

\* the records of the pages of `log`, in fetch order
RECURSIVE ConcatRecs(_)
ConcatRecs(log) ==
  IF log = << >> THEN << >> ELSE Head(log).recs \o ConcatRecs(Tail(log))

AllFetchesOk == \A i \in 1..Len(fetchLog) : fetchLog[i].ok

\* the first page was read and reported a total of at least one record
FirstPageReported ==
  /\ Len(fetchLog) >= 1
  /\ fetchLog[1].ok
  /\ fetchLog[1].recs # << >>

\* ---------------------------------------------------------------- C1
\* C1: against a source whose first page reports N records, with page size P,
\* with or without --limit and whichever fetches fail, a run of a list
\* harvester issues at most ceil(N/P) page fetches in total and accumulates at
\* most N records before deduplication.
\* (list_tthc with --limit L > N loops to ceil(L/P); emoh fetches every page a
\* second time in its download loop.)
Claim_C1 ==
  (script \in ListScripts /\ FirstPageReported)
    => /\ Len(fetchLog) <= CeilDiv(totalRecords, pageSize)
       /\ Len(collection) <= totalRecords

\* ---------------------------------------------------------------- C2
\* C2: a failed fetch of a page after the first is skipped: the page indexes
\* fetched are consecutive, a failure never ends the loop before its last
\* page, and the collection is exactly the records of the pages fetched
\* successfully, in fetch order; the result file written from it loses none
\* of their keys (list_tthc without --limit) or records (crawl_decisions, emoh).
LastPageIndex == IF script = "emoh" THEN maxPages - 1 ELSE maxPages

Thm_C2 ==
  script \in ListScripts =>
    /\ collection = ConcatRecs(ListFetches)
    /\ \A i \in 1..(Len(ListFetches) - 1) :
         ListFetches[i + 1].page = ListFetches[i].page + 1
    /\ (pc \notin {"start", "loop"} /\ Len(ListFetches) >= 2
          /\ ~Last(ListFetches).ok)
         => Last(ListFetches).page = LastPageIndex
    /\ (saved.written /\ limit = 0) =>
         \A i \in 1..Len(collection) :
           \E j \in 1..Len(saved.data) : saved.data[j].key = collection[i].key
    /\ (saved.written /\ script # "list_tthc") => saved.data = collection

\* an interior page failed and a later page was still fetched and kept
Witness_C2 ==
  /\ script \in {"list_tthc", "crawl_decisions"} /\ pc = "done"
  /\ saved.written
  /\ \E i \in 2..(Len(fetchLog) - 1) :
       /\ ~fetchLog[i].ok
       /\ fetchLog[i + 1].ok /\ fetchLog[i + 1].recs # << >>
       /\ \A r \in 1..Len(fetchLog[i + 1].recs) :
            \E c \in 1..Len(collection) : collection[c] = fetchLog[i + 1].recs[r]

\* ---------------------------------------------------------------- C3
\* C3: when the first page fetch returns an empty array, no further page is
\* fetched and the collection, and whatever is saved, is empty.
Thm_C3 ==
  (script \in ListScripts /\ Len(fetchLog) >= 1 /\ fetchLog[1].ok
     /\ fetchLog[1].recs = << >>)
    => /\ Len(fetchLog) = 1
       /\ collection = << >>
       /\ saved.data = << >>
       /\ pc \in {"save", "done"}

\* list_tthc --limit L against an empty source has run to its end
Witness_C3 ==
  /\ script = "list_tthc" /\ limit > pageSize /\ pc = "done"
  /\ Len(fetchLog) = 1 /\ fetchLog[1].ok /\ fetchLog[1].recs = << >>
  /\ collection = << >>

\* ---------------------------------------------------------------- C4
\* C4: when every page fetch succeeds and no limit is given, a list harvester
\* issues exactly ceil(N/P) page fetches over the whole run, every page but
\* the last yielding P records, and the collection holds the records of those
\* pages in fetch order.
\* (emoh main fetches each page again in its download loop: 2 * ceil(N/P).)
Claim_C4 ==
  (script \in ListScripts /\ limit = 0 /\ FirstPageReported /\ AllFetchesOk
     /\ pc = "done")
    => /\ Len(fetchLog) = CeilDiv(totalRecords, pageSize)
       /\ \A i \in 1..(Len(fetchLog) - 1) : Len(fetchLog[i].recs) = pageSize
       /\ collection = ConcatRecs(fetchLog)
       /\ collection = source

\* ---------------------------------------------------------------- C5
\* C5: with --limit L, list_tthc issues at most
\* min(ceil(N/PAGE_SIZE), ceil(L/PAGE_SIZE)) page fetches, exactly 1 when
\* L <= PAGE_SIZE, and the saved result has at most L records.
\* (maxRecords = limit || totalRecords takes the limit alone: with L > N the
\* loop goes on past the last page of the source.)
Claim_C5 ==
  (script = "list_tthc" /\ limit # 0 /\ FirstPageReported)
    => /\ Len(fetchLog) <= Min(CeilDiv(totalRecords, pageSize),
                               CeilDiv(limit, pageSize))
       /\ (limit <= pageSize /\ pc = "done") => Len(fetchLog) = 1
       /\ saved.written => Len(saved.data) <= limit

\* ---------------------------------------------------------------- C6
\* C6: the persisted collection has at most one record per natural key, and
\* the record kept for a key is the one fetched last.
\* (DecisionCrawler.crawlAll returns allDecisions as accumulated.)
Claim_C6 ==
  (script \in {"list_tthc", "crawl_decisions"} /\ saved.written)
    => /\ \A i, j \in 1..Len(saved.data) :
            saved.data[i].key = saved.data[j].key => i = j
       /\ \A i \in 1..Len(saved.data) :
            saved.data[i] = LastWithKey(collection, saved.data[i].key)

\* ---------------------------------------------------------------- C7
\* C7: a download whose destination file already exists issues no network
\* request and leaves the file as it was; once a call has produced the file, a
\* later call for the same destination issues no request.
\* (downloadFile of fetch_details opens the destination for writing first.)
Claim_C7 ==
  \A i \in 1..Len(dlLog) :
    /\ dlLog[i].before # "absent"
         => ~dlLog[i].request /\ dlLog[i].left = dlLog[i].before
    /\ \A j \in 1..(i - 1) :
         (dlLog[j].path = dlLog[i].path /\ dlLog[j].outcome = "saved")
           => ~dlLog[i].request

\* ---------------------------------------------------------------- C8
\* C8: a failed attachment download leaves no partially written file at the
\* destination, is counted as a failure, and does not abort the run.
\* (fetch_tthc_details has no 'error' listener on the write stream; emoh
\* keeps no failure counter and does not remove what writeFileSync left.)
Claim_C8 ==
  \A i \in 1..Len(dlLog) :
    dlLog[i].outcome = "failed"
      => /\ dlLog[i].left # "partial"
         /\ dlLog[i].counted
         /\ exitCode # 1

\* ---------------------------------------------------------------- C9
\* C9: the output of a detail pass has one record per processed input record,
\* at the same position and with its identifying fields, and a record whose
\* enrichment failed carries an ERROR field.
\* (the sub-fetches of fetchDecisionDetails catch their own errors and return
\* empty lists: the record comes out without ERROR.)
Processed == IF script \in BatchScripts THEN input ELSE ToProcess

Claim_C9 ==
  script \in DetailScripts \cup BatchScripts =>
    /\ Len(out) <= Len(Processed)
    /\ \A i \in 1..Len(out) :
         /\ out[i].key = Processed[i].key /\ out[i].pos = Processed[i].pos
         /\ out[i].fetched # "ok" => out[i].ERROR
    /\ saved.written => saved.data = out /\ Len(out) = Len(Processed)

\* --------------------------------------------------------------- C10
\* C10: crawlAllDetails writes the temporary checkpoint after every 10th batch
\* and after the last batch; each checkpoint holds exactly the results of the
\* batches completed when it was written, a prefix of the final result, and
\* after the last batch the checkpoint is the complete result.
TotalBatches == CeilDiv(Len(input), batchSize)
CompletedBatches == CeilDiv(idx, batchSize)
CheckpointDue(b) == b % CheckpointEvery = 0 \/ b = TotalBatches

Thm_C10 ==
  script \in BatchScripts =>
    /\ \A e \in 1..Len(ckptLog) :
         /\ CheckpointDue(ckptLog[e].batch)
         /\ Len(ckptLog[e].data) = Min(ckptLog[e].batch * batchSize, Len(input))
         /\ ckptLog[e].data = SubSeq(out, 1, Len(ckptLog[e].data))
    /\ \A b \in 1..CompletedBatches :
         CheckpointDue(b) => \E e \in 1..Len(ckptLog) : ckptLog[e].batch = b
    /\ (pc = "final" /\ input # << >>)
         => /\ checkpoint.written
            /\ checkpoint.data = out
            /\ Len(out) = Len(input)
    /\ (pc = "done" /\ exitCode = 0 /\ input # << >> /\ ~testMode)
         => Last(ckptLog).data = saved.data

\* the 10th batch and a later last batch have both been checkpointed
Witness_C10 ==
  /\ script \in BatchScripts /\ pc = "final"
  /\ Len(ckptLog) = 2
  /\ ckptLog[1].batch = CheckpointEvery
  /\ ckptLog[2].batch = TotalBatches
  /\ Len(ckptLog[1].data) < Len(ckptLog[2].data)
  /\ checkpoint.data = out

Thm_C12 ==
  (script \in DetailScripts \cup BatchScripts /\ ~inputExists /\ ~testMode) =>
    /\ requests = 0 /\ faults = 0
    /\ out = << >> /\ dlLog = << >> /\ fetchLog = << >>
    /\ saved = NoFile /\ checkpoint = NoFile /\ ckptLog = << >>
    /\ \A p \in Paths : files[p] \in {"absent", "old"}
    /\ pc \in {"start", "done"}
    /\ pc = "done" => exitCode = 1

\* fetch_details --download has ended on the missing input file
Witness_C12 ==
  /\ script = "fetch_details" /\ ~inputExists /\ shouldDownload
  /\ pc = "done" /\ exitCode = 1
  /\ requests = 0 /\ saved = NoFile

\* --------------------------------------------------------------- C13
\* C13: when the very first page yields no usable data (the fetch fails or
\* returns no record), the process terminates with a non-zero exit status.
\* (an empty first page makes list_tthc's main return and crawlAll return []:
\* both processes end with status 0.)
Claim_C13 ==
  (script \in {"list_tthc", "crawl_decisions"} /\ pc = "done"
     /\ Len(fetchLog) >= 1
     /\ (~fetchLog[1].ok \/ fetchLog[1].recs = << >>))
    => exitCode > 0

\* --------------------------------------------------------------- C14
\* C14: once any data has been processed, the failure of an individual item
\* (a page scrape, a page navigation, a record's detail fetch, an attachment
\* download) does not end the run: the run goes through the remaining items
\* and the process exits with status zero.
\* (scrapeAllPages stops at the first page that does not load.)
Claim_C14 ==
  /\ (script \in ScrapeScripts /\ pc = "done" /\ collection # << >>)
       => /\ exitCode = 0
          /\ pageIndex = maxPages
          /\ Len(fetchLog) = maxPages
  /\ (script = "fetch_details" /\ pc = "done" /\ out # << >>)
       => /\ exitCode = 0
          /\ Len(out) = Len(ToProcess)
          /\ Phase2Enabled =>
               /\ idx = Len(out) /\ pending = << >>
               /\ downloadedCount + failedCount = totalAttachments

\* --------------------------------------------------------------- C15
\* C15: in --test mode decision_details takes its records from the
\* identifiers on the command line and only prints the results; it writes no
\* file, neither the final result file nor a checkpoint file.
\* (crawlAllDetails calls saveIntermediateResults after the last batch in
\* either mode.)
Claim_C15 ==
  (script \in BatchScripts /\ testMode) =>
    /\ ~saved.written /\ saved = NoFile
    /\ ~checkpoint.written
    /\ ckptLog = << >>

\* --------------------------------------------------------------- C16
\* C16: fetch_details and fetch_tthc_details attempt no download unless
\* --download was given, and with it every download starts only after all
\* detail fetches have finished and the detailed-result file has been written.
Thm_C16 ==
  script \in DetailScripts =>
    /\ (dlLog # << >> \/ pc \in {"dlrecord", "download"}) =>
         /\ shouldDownload
         /\ Len(out) = Len(ToProcess)
         /\ successCount + failCount = Len(ToProcess)
         /\ saved.written /\ saved.data = out
    /\ ~shouldDownload =>
         /\ totalAttachments = 0 /\ downloadedCount = 0 /\ failedCount = 0
         /\ \A p \in Paths : files[p] \in {"absent", "old"}
         /\ requests = Len(out)

\* --download: a file is being downloaded after two detail fetches and the save
Witness_C16 ==
  /\ script \in DetailScripts /\ shouldDownload
  /\ Len(out) >= 2 /\ saved.written
  /\ Len(dlLog) >= 1 /\ requests = Len(out) + Len(dlLog)

\* --------------------------------------------------------------- C17
\* C17: vanbanCrawler.startAutoCrawl(N) crawls exactly N pages from the page
\* that is current when it is called (fewer only when the next-page links run
\* out), then switches auto-crawl off in memory and in storage.
\* (autoCrawlMaxPages is compared with the page NUMBER: started on page s > 1
\* the crawl stops after page max(s, N).)
Claim_C17 ==
  (script \in BrowserScripts /\ limit # 0 /\ pc = "done"
     /\ stopAt = NoStop /\ fetchLog[1].phase = "crawl") =>
    /\ Len(fetchLog) = Min(limit, SitePages - fetchLog[1].page + 1)
    /\ \A i \in 1..Len(fetchLog) : fetchLog[i].page = fetchLog[1].page + i - 1
    /\ ~autoCrawlEnabled
    /\ ~storage.enabled

\* --------------------------------------------------------------- C18
\* A CSV reader (RFC 4180): a field that opens with a quote runs to its
\* closing quote, "" inside it is one quote; elsewhere a comma ends the
\* field and a line break ends the row.
RECURSIVE ParseCsv(_, _, _, _, _)
ParseCsv(t, inQuotes, cell, row, rows) ==
  IF t = << >>
  THEN IF cell = << >> /\ row = << >> THEN rows
       ELSE Append(rows, Append(row, cell))
  ELSE LET c == Head(t) IN
       IF inQuotes
       THEN IF c = Quote
            THEN IF Len(t) >= 2 /\ t[2] = Quote
                 THEN ParseCsv(Tail(Tail(t)), TRUE, Append(cell, Quote), row, rows)
                 ELSE ParseCsv(Tail(t), FALSE, cell, row, rows)
            ELSE ParseCsv(Tail(t), TRUE, Append(cell, c), row, rows)
       ELSE IF c = Quote /\ cell = << >>
            THEN ParseCsv(Tail(t), TRUE, cell, row, rows)
       ELSE IF c = Comma
            THEN ParseCsv(Tail(t), FALSE, << >>, Append(row, cell), rows)
       ELSE IF c = Newline
            THEN ParseCsv(Tail(t), FALSE, << >>, << >>, Append(rows, Append(row, cell)))
       ELSE ParseCsv(Tail(t), FALSE, Append(cell, c), row, rows)

ParsedCsv == ParseCsv(saved.data, FALSE, << >>, << >>, << >>)

\* C18: saveToCSV round-trips scalar fields: every row of the parsed CSV has
\* as many cells as the header, and for every record and header field whose
\* value holds neither a comma nor a quote the parsed cell equals the string
\* form of the value; a value with a comma is quoted, its quotes doubled.
\* (`decision[header] || ''` writes 0 as the empty string, and a value with a
\* line break is written unquoted.)
Claim_C18 ==
  (script \in CsvScripts /\ saved.written) =>
    /\ Len(ParsedCsv) = Len(input) + 1
    /\ \A r \in 1..Len(ParsedCsv) : Len(ParsedCsv[r]) = Len(Headers)
    /\ \A i \in 1..Len(input) : \A j \in 1..Len(Headers) :
         LET text == ValueToString(input[i][j]) IN
         /\ (~Includes(text, Comma) /\ ~Includes(text, Quote))
              => /\ i + 1 <= Len(ParsedCsv)
                 /\ j <= Len(ParsedCsv[i + 1])
                 /\ ParsedCsv[i + 1][j] = text
         /\ Includes(text, Comma)
              => CsvCell(input[i][j]) = <<Quote>> \o DoubleQuotes(text) \o <<Quote>>

\* --------------------------------------------------------------- C19
\* C19: the natural-key deduplication is idempotent: applied to its own
\* output it returns the same records in the same order.
Thm_C19 ==
  script = "list_tthc" =>
    /\ DedupByKey(DedupByKey(collection)) = DedupByKey(collection)
    /\ (saved.written /\ limit = 0) => DedupByKey(saved.data) = saved.data

\* the step has removed records: some key was fetched three times
Witness_C19 ==
  /\ script = "list_tthc" /\ pc = "done" /\ saved.written /\ limit = 0
  /\ Len(saved.data) + 2 <= Len(collection)
  /\ \E k \in Keys :
       Cardinality({ i \in 1..Len(collection) : collection[i].key = k }) >= 3
  /\ DedupByKey(saved.data) = saved.data

\* --------------------------------------------------------------- C20
\* C20: with --limit L the saved result of list_tthc is the first L records
\* of the deduplicated collection: it has min(L, number of distinct keys
\* fetched) records and no key twice.
Thm_C20 ==
  (script = "list_tthc" /\ limit # 0 /\ saved.written) =>
    LET unique == DedupByKey(collection)
        keys   == { collection[i].key : i \in 1..Len(collection) }
    IN  /\ saved.data = SubSeq(unique, 1, Min(limit, Len(unique)))
        /\ Len(saved.data) = Min(limit, Cardinality(keys))
        /\ \A i, j \in 1..Len(saved.data) :
             saved.data[i].key = saved.data[j].key => i = j

\* a run where cutting before deduplicating would have saved fewer records
Witness_C20 ==
  /\ script = "list_tthc" /\ limit # 0 /\ saved.written /\ pc = "done"
  /\ Len(collection) > limit
  /\ Len(DedupByKey(SubSeq(collection, 1, limit))) < Len(saved.data)

\* --------------------------------------------------------------- C21
\* C21: in crawlAllDetails the requests of a batch are issued together, and
\* no request of the next batch is issued before every record of the batch
\* has resolved, succeeded or failed: a failing record never makes the join
\* of the batch return early.
Resolved == {"ok", "swallowed", "threw"}

Thm_C21 ==
  script \in BatchScripts =>
    /\ pc = "await" =>
         /\ Len(inflight) = Min(batchSize, Len(input) - idx)
         /\ Len(inflight) > 0
    /\ pc # "await" => inflight = << >>
    /\ Len(out) = Min(idx, Len(input))
    /\ \A i \in 1..Len(out) : out[i].fetched \in Resolved

\* the second batch is in flight, one of its records has failed and another
\* one has not resolved yet
Witness_C21 ==
  /\ script \in BatchScripts /\ pc = "await" /\ idx > 0
  /\ \E j \in 1..Len(inflight) : inflight[j] = "threw"
  /\ \E j \in 1..Len(inflight) : inflight[j] = "pending"
  /\ ~BatchSettled(inflight)

\* --------------------------------------------------------------- C22
\* C22: detailedDecisions is not touched while a batch is in flight: it is
\* appended to only after the whole batch has resolved, and under every
\* completion order of the requests of a batch the results are appended in
\* input order, so the final output order equals the input order.
Thm_C22 ==
  script \in BatchScripts =>
    /\ pc = "await" => Len(out) = idx
    /\ \A e \in 1..Len(ckptLog) : Len(ckptLog[e].data) <= Len(out)
    /\ \A i \in 1..Len(out) :
         out[i].key = input[i].key /\ out[i].pos = input[i].pos
    /\ pc = "final" =>
         [i \in 1..Len(out) |-> out[i].pos] = [i \in 1..Len(input) |-> input[i].pos]

\* the second record of a batch has resolved before the first one, and the
\* results of the earlier batch are all that the collection holds
Witness_C22 ==
  /\ script \in BatchScripts /\ pc = "await" /\ idx > 0
  /\ Len(inflight) >= 2
  /\ inflight[1] = "pending" /\ inflight[2] \in Resolved
  /\ Len(out) = idx

\* --------------------------------------------------------------- C23
\* C23: the harvester trusts the total count captured from the first page:
\* the number of pages it fetches is fixed once the first page has been read,
\* and counts reported by later pages never change it; for the list loops and
\* for the sub-list pagination of fetchAllProcedures.
FirstCount == fetchLog[1].recs[1].AMOUNT
FirstCountPages == IF CeilDiv(FirstCount, pageSize) > 1
                   THEN CeilDiv(FirstCount, pageSize) ELSE 1
NoPageEmpty == \A i \in 1..Len(fetchLog) : fetchLog[i].recs # << >>

Claim_C23 ==
  /\ (script \in {"list_tthc", "crawl_decisions"} /\ FirstPageReported) =>
       /\ maxPages = IF script = "list_tthc"
                     THEN ListMaxPages(limit, totalRecords, pageSize)
                     ELSE CalculateTotalPages(totalRecords, pageSize)
       /\ \A i \in 2..Len(fetchLog) : fetchLog[i].page <= maxPages
  /\ (script \in ProcScripts /\ FirstPageReported) =>
       /\ \A i \in 1..Len(fetchLog) : fetchLog[i].page <= FirstCountPages
       /\ (pc = "done" /\ NoPageEmpty) => Len(fetchLog) = FirstCountPages

\* --------------------------------------------------------------- C24
\* C24: detail enrichment merges by shallow override into a copy: every field
\* of the input record that the detail fetch does not produce is in the output
\* record with its original value, the fields the detail fetch produces have
\* the fetched value, and the input record is left as it was.
Claim_C24 ==
  script \in DetailScripts =>
    \A i \in 1..Len(out) :
      LET original == InputRecord(ToProcess[i])
          produced == DetailFields(ToProcess[i], out[i].fetched)
          merged   == out[i].rec
      IN  /\ \A f \in DOMAIN original :
               /\ f \in DOMAIN merged
               /\ f \notin DOMAIN produced => merged[f] = original[f]
          /\ \A f \in DOMAIN produced :
               f \in DOMAIN merged /\ merged[f] = produced[f]
          /\ DOMAIN merged = (DOMAIN original) \cup (DOMAIN produced)

Claim_C26 ==
  script \in ListScripts =>
    \A i \in 2..Len(ListFetches) : ListFetches[i].delay

\* --------------------------------------------------------------- C27
\* C27: once vanbanCrawler.stopAutoCrawl() has returned, the crawler triggers
\* no further page navigation and adds no further documents to allDocuments,
\* even when a delayed next-page click or the 1-second start-up crawl had
\* been scheduled before the stop.
Claim_C27 ==
  (script \in BrowserScripts /\ stopAt # NoStop) =>
    /\ pageIndex = stopAt.page
    /\ Len(collection) = stopAt.docs

\* --------------------------------------------------------------- C28
\* C28: after any sequence of crawlCurrentPage calls, page loads and
\* auto-crawl steps, allDocuments never holds two records with the same
\* (PAGE_ID, DOC_ID), also when one page lists a document in two rows;
\* crawling a page a second time adds no record.
Claim_C28 ==
  script \in BrowserScripts =>
    /\ \A i, j \in 1..Len(collection) :
         collection[i].key = collection[j].key => i = j
    /\ \A i, j \in 1..Len(fetchLog) :
         (i < j /\ fetchLog[i].page = fetchLog[j].page) => fetchLog[j].recs = << >>

\* --------------------------------------------------------------- C29
\* C29: the page loop of scrapeAllPages always terminates and scrapes at most
\* 50 pages: every iteration leaves the loop or increases currentPageNum by
\* one, and the loop is left as soon as currentPageNum exceeds 50, whatever
\* total the site reports.
ScrapeBounded ==
  /\ Len(fetchLog) <= SafetyLimit
  /\ \A i \in 1..Len(fetchLog) : fetchLog[i].page = i
  /\ pageIndex <= SafetyLimit + 1
  /\ pc \in {"scrape", "navigate"} => pageIndex <= SafetyLimit
  /\ pc = "scrape" => Len(fetchLog) = pageIndex - 1
  /\ pc = "navigate" => Len(fetchLog) = pageIndex

Thm_C29 == []ScrapeBounded /\ <>(pc = "done")

\* the pager showed more than 50 pages and the run has ended at the safety
\* limit, page 50 being the last one scraped
Witness_C29 ==
  /\ pc = "done" /\ maxPages > SafetyLimit
  /\ pageIndex = SafetyLimit + 1
  /\ Len(fetchLog) = SafetyLimit
  /\ Last(fetchLog).page = SafetyLimit

\* --------------------------------------------------------------- C30
\* C30: the reported counters account for every item exactly once: at the end
\* of the detail phase success + failed equals the number of records processed
\* and the length of the output collection, and at the end of the download
\* phase downloaded + failed equals the number of attachments attempted.
Thm_C30 ==
  script \in DetailScripts =>
    /\ successCount + failCount = Len(out)
    /\ successCount = Cardinality({ i \in 1..Len(out) : out[i].fetched = "ok" })
    /\ failCount = Cardinality({ i \in 1..Len(out) : out[i].ERROR })
    /\ (inputExists /\ pc \notin {"start", "detail"}) =>
         /\ successCount + failCount = Len(ToProcess)
         /\ Len(out) = Len(ToProcess)
    /\ (pc = "done" /\ exitCode = 0 /\ Phase2Enabled) =>
         /\ downloadedCount + failedCount = totalAttachments
         /\ totalAttachments = Len(dlLog)
         /\ downloadedCount =
              Cardinality({ i \in 1..Len(dlLog) : dlLog[i].outcome = "saved" })

\* both phases have ended, each with a success and a failure
Witness_C30 ==
  /\ script \in DetailScripts /\ pc = "done" /\ exitCode = 0 /\ Phase2Enabled
  /\ successCount >= 1 /\ failCount >= 1
  /\ downloadedCount >= 1 /\ failedCount >= 1
  /\ downloadedCount + failedCount = totalAttachments
====
